---- MODULE Spec2Model ----
(***************************************************************************)
(* A model of the Money Pot orchestration client.                          *)
(*                                                                         *)
(*   src/scripts/expire_pots.py   the expiration sweeper (main and         *)
(*                                expire_pots_batch)                       *)
(*   src/app.py                   the event correlator                     *)
(*                                                                         *)
(* The ledger, the view service and the transaction service are the        *)
(* environment: every answer they can give is a nondeterministic choice.   *)
(* One action is one step of the coroutine from an await to the next one.  *)
(***************************************************************************)
EXTENDS Integers, Sequences, FiniteSets, TLC

\* ------------------------------------------------------------------ bounds
\* Longest list get_active_pots answers with.
MaxPots == 4

\* What get_current_timestamp() reads.  The deadlines of the pots lie around
\* it: at 0, before it, at it and after it.
Clock == 2

\* The chunk size of the detail scan.  The source sets 50
\* (expire_pots.py:159); the model scales it down so that a scan of MaxPots
\* pots has several chunks.
batch_size == 2

\* ------------------------------------------------------- program constants
\* The arity of expire_multiple_pots, the step of range(0, len(pot_ids), 3).
GroupSize == 3

\* The value a short group is padded with (batch.append(0)).
Sentinel == 0

\* The default of pot_details.get("expires_at", 0).
DefaultExpiresAt == 0

VARIABLES
    pc,               \* where main() of expire_pots.py is
    active_pot_ids,   \* the answer of get_active_pots
    current_time,     \* get_current_timestamp()
    chunk_i,          \* the i of the scan loop (0-based offset)
    outstanding,      \* positions of active_pot_ids whose get_pot is in flight
    responses,        \* position -> what the view service answered (the
                      \* pot_details_list of the chunks so far), until the
                      \* scan is over
    viewlog,          \* the pot ids get_pot was called with, in call order
    expired_pot_ids,  \* the list the scan builds
    batch_i,          \* the i of the loop in expire_pots_batch
    batch,            \* the current group, padded
    member,           \* index in batch of the pot_id of the fallback loop
    successful_txs,   \* the list expire_pots_batch builds: <<pot_id, tx_hash>>
    txlog,            \* every call of submit_transaction, in call order
    read_error,       \* the read call whose exception reached main, or "none"
    events,           \* app.py: the events of a transaction, in ledger order
    extracted,        \* app.py: the extract functions that have run
    pot_id,           \* app.py: what extract_pot_id_from_events returned
    attempt_id,       \* app.py: what extract_attempt_id_from_events returned
    attempt2_id,      \* app.py main: the id of the second attempt
    error             \* app.py main: the exception that ended it, if any

vars == <<pc, active_pot_ids, current_time, chunk_i, outstanding, responses,
          viewlog, expired_pot_ids, batch_i, batch, member, successful_txs,
          txlog, read_error, events, extracted, pot_id, attempt_id,
          attempt2_id, error>>

\* ------------------------------------------------------------ environment
Min(a, b) == IF a < b THEN a ELSE b

Range(s) == {s[p] : p \in DOMAIN s}

\* The lists get_active_pots can answer with: pot ids are distinct.  The
\* code looks at an id only to compare it with 0, so the ids other than 0
\* are named 1, 2, ... in the order they occur in the list.
ActiveLists ==
    {s \in UNION {[1..n -> 0..MaxPots] : n \in 0..MaxPots} :
        /\ \A p, q \in DOMAIN s : p # q => s[p] # s[q]
        /\ \A p \in DOMAIN s :
              s[p] # 0 => s[p] = 1 + Cardinality({q \in 1..(p - 1) : s[q] # 0})}

\* The deadlines a pot can have at time now: none (0), passed, just reached,
\* still ahead.
Deadlines(now) == {0, now - 1, now, now + 1}

\* What client.view(get_pot) can answer with at time now:
\*   - a dict with both fields the sweeper reads, of a pot that is active,
\*     with any deadline, or of a pot that is no longer active and whose
\*     deadline has passed or is just reached;
\*   - a dict that lacks one of the two fields, whose other field has the
\*     value of a pot that is due (the absent field is read by its default
\*     whatever the other field holds);
\*   - something that is not a dict.
\* A field that is missing is given a fixed value here, which nothing reads.
ViewResults(now) ==
    {[is_dict |-> TRUE, fields |-> {"expires_at", "is_active"},
      expires_at |-> e, is_active |-> TRUE] : e \in Deadlines(now)}
    \cup {[is_dict |-> TRUE, fields |-> {"expires_at", "is_active"},
           expires_at |-> e, is_active |-> FALSE] : e \in {now - 1, now}}
    \cup {[is_dict |-> TRUE, fields |-> {"expires_at"},
           expires_at |-> now - 1, is_active |-> FALSE],
          [is_dict |-> TRUE, fields |-> {"is_active"},
           expires_at |-> 0, is_active |-> TRUE],
          [is_dict |-> FALSE, fields |-> {},
           expires_at |-> 0, is_active |-> FALSE]}

\* ------------------------------------------------------- the detail scan
\* return res if isinstance(res, dict) else {}
EmptyDict == [is_dict |-> TRUE, fields |-> {}, expires_at |-> 0, is_active |-> FALSE]

get_pot_details(res) == IF res.is_dict THEN res ELSE EmptyDict

\* int(pot_details.get("expires_at", 0))
GetExpiresAt(d) ==
    IF "expires_at" \in d.fields THEN d.expires_at ELSE DefaultExpiresAt

\* A variant: the default of is_active is True.
GetIsActiveDefaultTrue(d) ==
    IF "is_active" \in d.fields THEN d.is_active ELSE TRUE

\* pot_details.get("is_active", False)
GetIsActive(d) ==
    IF "is_active" \in d.fields THEN d.is_active ELSE FALSE

\* A variant: a deadline reached just now does not count yet.
IsExpiredStrictlyPast(d, now) ==
    GetIsActive(d) /\ GetExpiresAt(d) > 0 /\ now > GetExpiresAt(d)

\* if is_active and expires_at > 0 and current_time >= expires_at
IsExpired(d, now) ==
    GetIsActive(d) /\ GetExpiresAt(d) > 0 /\ now >= GetExpiresAt(d)

\* A variant: every remaining id is queried at once.
ChunkPositionsAll(ids, i) == (i + 1)..Len(ids)

\* The positions (1-based) of active_pot_ids[i:i+batch_size].
ChunkPositions(ids, i) == (i + 1)..Min(i + batch_size, Len(ids))

\* The ids of positions lo..hi of ids whose answer qualifies, in list order:
\* what the loop over zip(batch, pot_details_list) appends.
RECURSIVE FilterChunk(_, _, _, _, _)
FilterChunk(ids, res, now, lo, hi) ==
    IF lo > hi THEN <<>>
    ELSE (IF IsExpired(get_pot_details(res[lo]), now) THEN <<ids[lo]>> ELSE <<>>)
         \o FilterChunk(ids, res, now, lo + 1, hi)

\* The ids of the get_pot calls of one chunk, in list order.
ChunkIds(ids, i) == [k \in 1..Cardinality(ChunkPositions(ids, i)) |-> ids[i + k]]

\* ------------------------------------------------------ expire_pots_batch
\* A variant: a short group is left short.
PadNone(b) == b

\* batch = pot_ids[i:i+3], padded with 0 up to 3.
RECURSIVE Pad(_)
Pad(b) == IF Len(b) < GroupSize THEN Pad(Append(b, Sentinel)) ELSE b

MakeBatch(pot_ids, i) == Pad(SubSeq(pot_ids, i + 1, Min(i + GroupSize, Len(pot_ids))))

\* The loop "for pot_id in batch: if pot_id != 0": the index of the first
\* member after index m that is not 0, or 0 when there is none.
NextMember(b, m) ==
    LET later == {k \in (m + 1)..Len(b) : b[k] # 0}
    IN  IF later = {} THEN 0 ELSE CHOOSE k \in later : \A l \in later : k <= l

\* A variant: every member of a committed batch is appended, also a 0.
BatchPairsAll(b, k, h) == [j \in 1..(Len(b) - k + 1) |-> <<b[k + j - 1], h>>]

\* The pairs a committed batch appends: its members that are not 0.
RECURSIVE BatchPairs(_, _, _)
BatchPairs(b, k, h) ==
    IF k > Len(b) THEN <<>>
    ELSE (IF b[k] # 0 THEN <<<<b[k], h>>>> ELSE <<>>) \o BatchPairs(b, k + 1, h)

\* A call of submit_transaction: the request, and how it ended.
Tx(fn, args) == [fn |-> fn, args |-> args, status |-> "pending"]

\* A variant: the end of a submission is not waited for.
SettleNotAwaited(log, st) == log

Settle(log, st) == [log EXCEPT ![Len(log)].status = st]

\* The hash of the transaction submit_transaction is waiting for: the ledger
\* gives every transaction its own hash, here its place in txlog.
TxHash(log) == Len(log)

\* ---------------------------------------------------------------- Init
SweeperInit ==
    /\ pc = "get_active_pots"
    /\ active_pot_ids = <<>>
    /\ current_time = 0
    /\ chunk_i = 0
    /\ outstanding = {}
    /\ responses = <<>>
    /\ viewlog = <<>>
    /\ expired_pot_ids = <<>>
    /\ batch_i = 0
    /\ batch = <<>>
    /\ member = 0
    /\ successful_txs = <<>>
    /\ txlog = <<>>
    /\ read_error = "none"

\* The sweeper is a script of its own: no event list is correlated in its run.
Init ==
    /\ SweeperInit
    /\ events = <<>>
    /\ extracted = {}
    /\ pot_id = <<>>
    /\ attempt_id = <<>>
    /\ attempt2_id = <<>>
    /\ error = <<>>

scanVars == <<active_pot_ids, current_time, chunk_i, outstanding, responses,
              viewlog, expired_pot_ids, read_error>>
mutVars == <<batch_i, batch, member, successful_txs, txlog>>
sweepVars == <<pc, scanVars, mutVars>>
corrVars == <<events, extracted, pot_id, attempt_id>>
driverVars == <<attempt2_id, error>>
appVars == <<corrVars, driverVars>>

\* ------------------------------------------------------------- actions
\* main, lines 144-166: get_active_pots answers; an empty list ends the run,
\* otherwise the clock is read and the queries of the first chunk are issued.
GetActivePotsReturn ==
    /\ pc = "get_active_pots"
    /\ \E ids \in ActiveLists :
        /\ active_pot_ids' = ids
        /\ IF ids = <<>>
           THEN /\ pc' = "returned"
                /\ UNCHANGED <<current_time, outstanding, viewlog>>
           ELSE /\ pc' = "gather"
                /\ current_time' = Clock
                /\ outstanding' = ChunkPositions(ids, 0)
                /\ viewlog' = ChunkIds(ids, 0)
    /\ UNCHANGED <<chunk_i, responses, expired_pot_ids, read_error>>
    /\ UNCHANGED mutVars
    /\ UNCHANGED appVars

\* main, line 144: the query raises; nothing catches it.
GetActivePotsFail ==
    /\ pc = "get_active_pots"
    /\ pc' = "raised"
    /\ read_error' = "get_active_pots"
    /\ UNCHANGED <<active_pot_ids, current_time, chunk_i, outstanding, responses,
                   viewlog, expired_pot_ids>>
    /\ UNCHANGED mutVars
    /\ UNCHANGED appVars

\* get_pot_details, line 52: one query of the chunk is answered.
GetPotReturn ==
    /\ pc = "gather"
    /\ \E p \in outstanding, r \in ViewResults(current_time) :
        /\ outstanding' = outstanding \ {p}
        /\ responses' = (p :> r) @@ responses
    /\ UNCHANGED <<pc, active_pot_ids, current_time, chunk_i, viewlog,
                   expired_pot_ids, read_error>>
    /\ UNCHANGED mutVars
    /\ UNCHANGED appVars

\* A variant: the exception of a query is swallowed and the pot read as {}.
GetPotFailSwallowed ==
    /\ pc = "gather"
    /\ \E p \in outstanding :
        /\ outstanding' = outstanding \ {p}
        /\ responses' = (p :> EmptyDict) @@ responses
    /\ read_error' = "get_pot"
    /\ UNCHANGED <<pc, active_pot_ids, current_time, chunk_i, viewlog,
                   expired_pot_ids>>
    /\ UNCHANGED mutVars
    /\ UNCHANGED appVars

\* get_pot_details, line 52: one query raises; gather hands the exception to
\* main, which ends with it, and asyncio.run cancels the queries still out.
GetPotFail ==
    /\ pc = "gather"
    /\ outstanding # {}
    /\ pc' = "raised"
    /\ read_error' = "get_pot"
    /\ outstanding' = {}
    /\ UNCHANGED <<active_pot_ids, current_time, chunk_i, responses, viewlog,
                   expired_pot_ids>>
    /\ UNCHANGED mutVars
    /\ UNCHANGED appVars

\* main, lines 166-173: the chunk is complete; its expired ids are appended;
\* then the queries of the next chunk are issued, or the loop is over.
Gathered ==
    /\ pc = "gather"
    /\ outstanding = {}
    /\ LET hi == Min(chunk_i + batch_size, Len(active_pot_ids))
           next_i == chunk_i + batch_size
       IN  /\ expired_pot_ids' =
                  expired_pot_ids
                  \o FilterChunk(active_pot_ids, responses, current_time,
                                 chunk_i + 1, hi)
           /\ IF next_i < Len(active_pot_ids)
              THEN /\ pc' = "gather"
                   /\ chunk_i' = next_i
                   /\ outstanding' = ChunkPositions(active_pot_ids, next_i)
                   /\ viewlog' = viewlog \o ChunkIds(active_pot_ids, next_i)
              ELSE /\ pc' = "scanned"
                   /\ UNCHANGED <<chunk_i, outstanding, viewlog>>
    /\ UNCHANGED <<active_pot_ids, current_time, responses, read_error>>
    /\ UNCHANGED mutVars
    /\ UNCHANGED appVars

\* main, lines 175-185 and expire_pots_batch, lines 85-109: after the scan
\* the run ends when nothing expired, otherwise the first group is submitted.
\* The answers of the scan are not read again.
StartExpire ==
    /\ pc = "scanned"
    /\ responses' = <<>>
    /\ IF expired_pot_ids = <<>>
       THEN /\ pc' = "returned"
            /\ UNCHANGED mutVars
       ELSE /\ pc' = "batch_wait"
            /\ batch_i' = 0
            /\ batch' = MakeBatch(expired_pot_ids, 0)
            /\ txlog' = Append(txlog,
                   Tx("expire_multiple_pots", MakeBatch(expired_pot_ids, 0)))
            /\ UNCHANGED <<member, successful_txs>>
    /\ UNCHANGED <<active_pot_ids, current_time, chunk_i, outstanding, viewlog,
                   expired_pot_ids, read_error>>
    /\ UNCHANGED appVars

\* A variant: the loop over the groups steps by one less than a group.
NextGroupOverlapping(log, done) ==
    LET next_i == batch_i + GroupSize - 1
    IN  /\ successful_txs' = done
        /\ IF next_i < Len(expired_pot_ids)
           THEN /\ pc' = "batch_wait"
                /\ batch_i' = next_i
                /\ batch' = MakeBatch(expired_pot_ids, next_i)
                /\ member' = 0
                /\ txlog' = Append(log,
                       Tx("expire_multiple_pots", MakeBatch(expired_pot_ids, next_i)))
           ELSE /\ pc' = "reported"
                /\ member' = 0
                /\ txlog' = log
                /\ UNCHANGED <<batch_i, batch>>

\* expire_pots_batch, line 88: the next iteration of the loop over the
\* groups, given the log and the list as the finished group leaves them:
\* the next group is submitted, or the function returns and main reports.
NextGroup(log, done) ==
    LET next_i == batch_i + GroupSize
    IN  /\ successful_txs' = done
        /\ IF next_i < Len(expired_pot_ids)
           THEN /\ pc' = "batch_wait"
                /\ batch_i' = next_i
                /\ batch' = MakeBatch(expired_pot_ids, next_i)
                /\ member' = 0
                /\ txlog' = Append(log,
                       Tx("expire_multiple_pots", MakeBatch(expired_pot_ids, next_i)))
           ELSE /\ pc' = "reported"
                /\ member' = 0
                /\ txlog' = log
                /\ UNCHANGED <<batch_i, batch>>

\* The fallback loop, lines 124-131, from the member after index m on: the
\* next member that is not 0 gets its own expire_pot, or the group is done.
Fallback(log, done, m) ==
    LET k == NextMember(batch, m)
    IN  IF k = 0
        THEN NextGroup(log, done)
        ELSE /\ pc' = "single_wait"
             /\ member' = k
             /\ txlog' = Append(log, Tx("expire_pot", <<batch[k]>>))
             /\ successful_txs' = done
             /\ UNCHANGED <<batch_i, batch>>

\* A variant: the members of a committed batch are expired one by one again.
BatchCommittedThenSingles ==
    /\ pc = "batch_wait"
    /\ Fallback(Settle(txlog, "committed"),
                successful_txs \o BatchPairs(batch, 1, TxHash(txlog)), 0)
    /\ UNCHANGED scanVars
    /\ UNCHANGED appVars

\* expire_pots_batch, lines 109-119: the batch transaction is committed.
BatchCommitted ==
    /\ pc = "batch_wait"
    /\ NextGroup(Settle(txlog, "committed"),
                 successful_txs \o BatchPairs(batch, 1, TxHash(txlog)))
    /\ UNCHANGED scanVars
    /\ UNCHANGED appVars

\* A variant: the exception of a batch submission is not caught.
BatchFailedRaises ==
    /\ pc = "batch_wait"
    /\ pc' = "raised"
    /\ txlog' = Settle(txlog, "failed")
    /\ UNCHANGED <<batch_i, batch, member, successful_txs>>
    /\ UNCHANGED scanVars
    /\ UNCHANGED appVars

\* expire_pots_batch, lines 121-127: the batch submission raises.
BatchFailed ==
    /\ pc = "batch_wait"
    /\ Fallback(Settle(txlog, "failed"), successful_txs, 0)
    /\ UNCHANGED scanVars
    /\ UNCHANGED appVars

\* expire_pot, lines 68-74 and expire_pots_batch, lines 128-129.
SingleCommitted ==
    /\ pc = "single_wait"
    /\ Fallback(Settle(txlog, "committed"),
                Append(successful_txs, <<batch[member], TxHash(txlog)>>),
                member)
    /\ UNCHANGED scanVars
    /\ UNCHANGED appVars

\* A variant: the first expire_pot that fails ends the fallback of its group.
SingleFailedEndsGroup ==
    /\ pc = "single_wait"
    /\ NextGroup(Settle(txlog, "failed"), successful_txs)
    /\ UNCHANGED scanVars
    /\ UNCHANGED appVars

\* expire_pot, lines 75-77: the submission raises, expire_pot returns
\* (False, "failed") and nothing is appended.
SingleFailed ==
    /\ pc = "single_wait"
    /\ Fallback(Settle(txlog, "failed"), successful_txs, member)
    /\ UNCHANGED scanVars
    /\ UNCHANGED appVars

Next ==
    \/ GetActivePotsReturn
    \/ GetActivePotsFail
    \/ GetPotReturn
    \/ GetPotFail
    \/ Gathered
    \/ StartExpire
    \/ BatchCommitted
    \/ BatchFailed
    \/ SingleCommitted
    \/ SingleFailed

Spec == Init /\ [][Next]_vars

\* Every remote call the sweeper waits for returns or raises in the end, and
\* the event loop runs main on when it does.
SpecFair == Spec /\ WF_vars(Next)

\* ============================================ the event correlator (app.py)
\* Most events of one transaction.
MaxEvents == 3

\* Largest identifier an event carries.
MaxEventId == 1

\* The default of data.get("id", 0).
DefaultId == 0

\* A string is the sequence of its characters, a decoded string the sequence
\* of its code points.
HexLower == <<"0", "1", "2", "3", "4", "5", "6", "7", "8", "9",
              "a", "b", "c", "d", "e", "f">>
HexUpper == <<"0", "1", "2", "3", "4", "5", "6", "7", "8", "9",
              "A", "B", "C", "D", "E", "F">>

\* The value of a hex digit, lower-case or upper-case.
HexDigits ==
    [c \in {HexLower[v] : v \in 1..16} \cup {HexUpper[v] : v \in 1..16} |->
        (CHOOSE v \in 1..16 : HexLower[v] = c \/ HexUpper[v] = c) - 1]

IsHexDigit(c) == c \in DOMAIN HexDigits

HexValue(c) == HexDigits[c]

\* The code points of "created", "attempted" and "resolved".
Created == <<99, 114, 101, 97, 116, 101, 100>>
Attempted == <<97, 116, 116, 101, 109, 112, 116, 101, 100>>
Resolved == <<114, 101, 115, 111, 108, 118, 101, 100>>

\* How the ledger's API writes a byte string: two hex digits a byte, taken
\* from the sixteen of digits, after "0x".
ToHex(bytes, digits) ==
    <<"0", "x">> \o [k \in 1..(2 * Len(bytes)) |->
                        LET b == bytes[(k + 1) \div 2]
                        IN  digits[(IF k % 2 = 1 THEN b \div 16 ELSE b % 16) + 1]]

\* bytes.fromhex(s): a ValueError when s has a character that is no hex digit
\* or an odd number of digits.  (No string here has white space in it.)
FromHex(s) ==
    IF Len(s) % 2 # 0 \/ \E k \in DOMAIN s : ~IsHexDigit(s[k])
    THEN [ok |-> FALSE, bytes |-> <<>>]
    ELSE [ok |-> TRUE,
          bytes |-> [k \in 1..(Len(s) \div 2) |->
                        16 * HexValue(s[2 * k - 1]) + HexValue(s[2 * k])]]

\* bytes.decode(): the bytes below 128 are their own code points; the one
\* other byte of the strings here, 255, is in no UTF-8 text
\* (UnicodeDecodeError).
Utf8Decode(bytes) ==
    IF \E k \in DOMAIN bytes : bytes[k] >= 128
    THEN [ok |-> FALSE, str |-> <<>>]
    ELSE [ok |-> TRUE, str |-> bytes]

\* bytes.fromhex(event_type_hex[2:]).decode(), lines 136 and 152: the first
\* two characters are dropped, whatever they are.
DecodeEventType(event_type_hex) ==
    LET raw == FromHex(SubSeq(event_type_hex, 3, Len(event_type_hex)))
    IN  IF raw.ok THEN Utf8Decode(raw.bytes) ELSE [ok |-> FALSE, str |-> <<>>]

\* f"{MODULE_ADDR}::money_pot_manager::PotEvent", and the same event type of
\* a module at another address.
PotEventType == "MODULE_ADDR::money_pot_manager::PotEvent"
ForeignEventType == "0xf00::money_pot_manager::PotEvent"

\* The event_type fields that do not read as one of the kinds: none at all
\* (or an empty one), no "0x" in front, an odd number of digits, a character
\* that is no hex digit, bytes that are no UTF-8.
OffTags ==
    {<<>>,
     SubSeq(ToHex(Created, HexLower), 3, 2 + 2 * Len(Created)),
     <<"0", "x", "6", "3", "7">>,
     <<"0", "x", "c", "r">>,
     <<"0", "x", "f", "f">>}

\* The events a transaction can have.  The id of an event is <<>> when its
\* data has no "id", otherwise <<n>>.
\*   - events of the contract with a kind as the ledger writes it, with or
\*     without an id;
\*   - an "attempted" event of the contract written in upper-case digits;
\*   - events of the contract whose event_type is off;
\*   - events of the other module, which name the kinds the client looks for.
EventValues ==
    {[type |-> PotEventType, event_type |-> ToHex(kind, HexLower), id |-> i] :
        kind \in {Created, Attempted, Resolved},
        i \in {<<>>} \cup {<<n>> : n \in 0..MaxEventId}}
    \cup {[type |-> PotEventType, event_type |-> ToHex(Attempted, HexUpper),
           id |-> <<MaxEventId>>]}
    \cup {[type |-> PotEventType, event_type |-> t, id |-> <<MaxEventId>>] :
            t \in OffTags}
    \cup {[type |-> ForeignEventType, event_type |-> ToHex(kind, HexLower),
           id |-> <<MaxEventId>>] : kind \in {Created, Attempted}}

EventLists == UNION {[1..n -> EventValues] : n \in 0..MaxEvents}

\* A variant: the type of the event is not looked at.
IsAnyEvent(event) == event.type \in {PotEventType, ForeignEventType}

\* event.get("type") == f"{MODULE_ADDR}::money_pot_manager::PotEvent"
IsPotEvent(event) == event.type = PotEventType

\* int(data.get("id", 0))
GetId(event) == IF event.id = <<>> THEN DefaultId ELSE event.id[1]

\* A variant: no try/except around the decoding, so the first event_type that
\* does not decode ends the scan without a result.
RECURSIVE ExtractFromAborting(_, _, _)
ExtractFromAborting(evs, k, wanted) ==
    IF k > Len(evs) THEN <<>>
    ELSE IF IsPotEvent(evs[k]) /\ evs[k].event_type # <<>>
         THEN LET event_type == DecodeEventType(evs[k].event_type)
              IN  IF ~event_type.ok THEN <<>>
                  ELSE IF event_type.str = wanted
                       THEN <<GetId(evs[k])>>
                       ELSE ExtractFromAborting(evs, k + 1, wanted)
         ELSE ExtractFromAborting(evs, k + 1, wanted)

\* The loop of extract_pot_id_from_events and of
\* extract_attempt_id_from_events from event k on, looking for the kind
\* wanted: <<>> for None, <<id>> for an id.
RECURSIVE ExtractFrom(_, _, _)
ExtractFrom(evs, k, wanted) ==
    IF k > Len(evs) THEN <<>>
    ELSE IF IsPotEvent(evs[k]) /\ evs[k].event_type # <<>>
         THEN LET event_type == DecodeEventType(evs[k].event_type)
              IN  IF event_type.ok /\ event_type.str = wanted
                  THEN <<GetId(evs[k])>>
                  ELSE ExtractFrom(evs, k + 1, wanted)
         ELSE ExtractFrom(evs, k + 1, wanted)

extract_pot_id_from_events(evs) == ExtractFrom(evs, 1, Created)

extract_attempt_id_from_events(evs) == ExtractFrom(evs, 1, Attempted)

\* A transaction's events, as get_transaction_events hands them over.
CorrelatorInit ==
    /\ SweeperInit
    /\ events \in EventLists
    /\ extracted = {}
    /\ pot_id = <<>>
    /\ attempt_id = <<>>
    /\ attempt2_id = <<>>
    /\ error = <<>>

\* pot_id = extract_pot_id_from_events(create_events)
ExtractPotId ==
    /\ "pot_id" \notin extracted
    /\ extracted' = extracted \cup {"pot_id"}
    /\ pot_id' = extract_pot_id_from_events(events)
    /\ UNCHANGED <<events, attempt_id>>
    /\ UNCHANGED sweepVars
    /\ UNCHANGED driverVars

\* attempt_id = extract_attempt_id_from_events(attempt_events)
ExtractAttemptId ==
    /\ "attempt_id" \notin extracted
    /\ extracted' = extracted \cup {"attempt_id"}
    /\ attempt_id' = extract_attempt_id_from_events(events)
    /\ UNCHANGED <<events, pot_id>>
    /\ UNCHANGED sweepVars
    /\ UNCHANGED driverVars

CorrelatorNext ==
    \/ ExtractPotId
    \/ ExtractAttemptId

SpecCorrelator == CorrelatorInit /\ [][CorrelatorNext]_vars

\* ============================================ the lifecycle driver (app.py)

\* The longest event list of a transaction of the driver.
MaxTxEvents == 2

TxEventLists == UNION {[1..n -> EventValues] : n \in 0..MaxTxEvents}

\* A call of submit_transaction(client, account, payload) of app.py.
SignedTx(account, fn, args) ==
    [account |-> account, fn |-> fn, args |-> args, status |-> "pending"]

\* create_pot: amount, duration_seconds, fee, one_fa_address.
CreateArgs == <<"amount", "duration_seconds", "fee", "hunter_addr">>

\* create_pot, attempt_pot, attempt_completed: each builds its payload and
\* makes one call of submit_transaction.
create_pot(log) == Append(log, SignedTx("main_acct", "create_pot_entry", CreateArgs))

attempt_pot(log, id) == Append(log, SignedTx("hunter_acct", "attempt_pot_entry", <<id>>))

attempt_completed(log, id, status) ==
    Append(log, SignedTx("main_acct", "attempt_completed", <<id, status>>))

\* An exception leaves main: asyncio.run hands it to the caller.
Raise(type, message) ==
    /\ pc' = "raised"
    /\ error' = <<[type |-> type, message |-> message]>>

\* The app.py script is a run of its own: nothing of the sweeper moves.
DriverInit ==
    /\ pc = "create_pot"
    /\ active_pot_ids = <<>>
    /\ current_time = 0
    /\ chunk_i = 0
    /\ outstanding = {}
    /\ responses = <<>>
    /\ viewlog = <<>>
    /\ expired_pot_ids = <<>>
    /\ batch_i = 0
    /\ batch = <<>>
    /\ member = 0
    /\ successful_txs = <<>>
    /\ txlog = <<>>
    /\ read_error = "none"
    /\ events = <<>>
    /\ extracted = {}
    /\ pot_id = <<>>
    /\ attempt_id = <<>>
    /\ attempt2_id = <<>>
    /\ error = <<>>

sweepOnlyVars == <<scanVars, batch_i, batch, member, successful_txs>>

\* main, line 256: create_pot is called.
CreatePot ==
    /\ pc = "create_pot"
    /\ pc' = "create_pot_wait"
    /\ txlog' = create_pot(txlog)
    /\ UNCHANGED <<corrVars, driverVars, sweepOnlyVars>>

\* main, lines 256-259: the create transaction is committed; its events are
\* asked for.
CreateCommitted ==
    /\ pc = "create_pot_wait"
    /\ pc' = "create_events"
    /\ txlog' = Settle(txlog, "committed")
    /\ UNCHANGED <<corrVars, driverVars, sweepOnlyVars>>

\* main, lines 259-267: the events arrive, the pot id is extracted; without
\* one main raises, with one the first attempt is submitted.
CreateEventsReturn ==
    /\ pc = "create_events"
    /\ \E evs \in TxEventLists :
        LET id == extract_pot_id_from_events(evs)
        IN  /\ events' = evs
            /\ extracted' = extracted \cup {"pot_id"}
            /\ pot_id' = id
            /\ IF id = <<>>
               THEN /\ Raise("RuntimeError", "Could not extract pot_id from creation events")
                    /\ UNCHANGED txlog
               ELSE /\ pc' = "attempt_wait"
                    /\ txlog' = attempt_pot(txlog, id[1])
                    /\ UNCHANGED error
    /\ UNCHANGED <<attempt_id, attempt2_id, sweepOnlyVars>>

\* main, lines 267-270: the attempt is committed and its events are asked
\* for.  The events of the transaction before are not read again.
AttemptCommitted ==
    /\ pc = "attempt_wait"
    /\ pc' = "attempt_events"
    /\ txlog' = Settle(txlog, "committed")
    /\ events' = <<>>
    /\ UNCHANGED <<extracted, pot_id, attempt_id, driverVars, sweepOnlyVars>>

\* A variant: without an attempted event main goes on with the default id.
AttemptEventsReturnLenient ==
    /\ pc = "attempt_events"
    /\ \E evs \in TxEventLists :
        LET id == extract_attempt_id_from_events(evs)
        IN  /\ events' = evs
            /\ extracted' = extracted \cup {"attempt_id"}
            /\ attempt_id' = id
            /\ pc' = "fail_wait"
            /\ txlog' = attempt_completed(txlog, IF id = <<>> THEN DefaultId ELSE id[1], FALSE)
            /\ UNCHANGED error
    /\ UNCHANGED <<pot_id, attempt2_id, sweepOnlyVars>>

\* main, lines 270-278: the attempt id is extracted; without one main raises,
\* with one the attempt is marked as failed.
AttemptEventsReturn ==
    /\ pc = "attempt_events"
    /\ \E evs \in TxEventLists :
        LET id == extract_attempt_id_from_events(evs)
        IN  /\ events' = evs
            /\ extracted' = extracted \cup {"attempt_id"}
            /\ attempt_id' = id
            /\ IF id = <<>>
               THEN /\ Raise("RuntimeError", "Could not extract attempt_id from attempt events")
                    /\ UNCHANGED txlog
               ELSE /\ pc' = "fail_wait"
                    /\ txlog' = attempt_completed(txlog, id[1], FALSE)
                    /\ UNCHANGED error
    /\ UNCHANGED <<pot_id, attempt2_id, sweepOnlyVars>>

\* main, lines 278-283: the resolution is committed, the second attempt is
\* submitted with the same pot_id.
FailCommitted ==
    /\ pc = "fail_wait"
    /\ pc' = "attempt2_wait"
    /\ txlog' = attempt_pot(Settle(txlog, "committed"), pot_id[1])
    /\ events' = <<>>
    /\ UNCHANGED <<extracted, pot_id, attempt_id, driverVars, sweepOnlyVars>>

\* main, lines 283-286.
Attempt2Committed ==
    /\ pc = "attempt2_wait"
    /\ pc' = "attempt2_events"
    /\ txlog' = Settle(txlog, "committed")
    /\ events' = <<>>
    /\ UNCHANGED <<extracted, pot_id, attempt_id, driverVars, sweepOnlyVars>>

\* main, lines 286-294: the id of the second attempt is extracted; without
\* one main raises, with one the attempt is marked as successful.
Attempt2EventsReturn ==
    /\ pc = "attempt2_events"
    /\ \E evs \in TxEventLists :
        LET id == extract_attempt_id_from_events(evs)
        IN  /\ events' = evs
            /\ extracted' = extracted \cup {"attempt2_id"}
            /\ attempt2_id' = id
            /\ IF id = <<>>
               THEN /\ Raise("RuntimeError", "Could not extract attempt_id from second attempt events")
                    /\ UNCHANGED txlog
               ELSE /\ pc' = "success_wait"
                    /\ txlog' = attempt_completed(txlog, id[1], TRUE)
                    /\ UNCHANGED error
    /\ UNCHANGED <<pot_id, attempt_id, sweepOnlyVars>>

\* main, lines 294-300: the last resolution is committed, the summary is
\* printed.
SuccessCommitted ==
    /\ pc = "success_wait"
    /\ pc' = "done"
    /\ txlog' = Settle(txlog, "committed")
    /\ events' = <<>>
    /\ UNCHANGED <<extracted, pot_id, attempt_id, driverVars, sweepOnlyVars>>

WaitPcs == {"create_pot_wait", "attempt_wait", "fail_wait", "attempt2_wait", "success_wait"}

EventPcs == {"create_events", "attempt_events", "attempt2_events"}

\* A variant: a submission that raises is made once more.
SubmitFailedRetries ==
    /\ pc \in WaitPcs
    /\ txlog' = Append(Settle(txlog, "failed"), txlog[Len(txlog)])
    /\ UNCHANGED <<pc, appVars, sweepOnlyVars>>

\* submit_transaction, lines 112-119: signing or submit_and_wait raises;
\* nothing in app.py catches it.
SubmitFailed ==
    /\ pc \in WaitPcs
    /\ txlog' = Settle(txlog, "failed")
    /\ Raise("ApiError", "submit_and_wait_for_bcs_transaction")
    /\ UNCHANGED <<corrVars, attempt2_id, sweepOnlyVars>>

\* get_transaction_events, lines 122-125: transaction_by_hash raises.
GetEventsFailed ==
    /\ pc \in EventPcs
    /\ Raise("ApiError", "transaction_by_hash")
    /\ UNCHANGED <<corrVars, attempt2_id, txlog, sweepOnlyVars>>

DriverNext ==
    \/ CreatePot
    \/ CreateCommitted
    \/ CreateEventsReturn
    \/ AttemptCommitted
    \/ AttemptEventsReturn
    \/ FailCommitted
    \/ Attempt2Committed
    \/ Attempt2EventsReturn
    \/ SuccessCommitted
    \/ SubmitFailed
    \/ GetEventsFailed

SpecDriver == DriverInit /\ [][DriverNext]_vars

\* A run of the client: one of its two scripts, the sweeper or the driver.
ClientNext == Next \/ DriverNext

SpecClient == (Init \/ DriverInit) /\ [][ClientNext]_vars

\* =================================================================== claims
\* The scan is over: every chunk has been gathered and filtered.
ScanComplete == pc \in {"scanned", "returned", "batch_wait", "single_wait", "reported"}

\* The positions whose answer the filter loop has gone through.
Filtered ==
    IF pc = "scanned" THEN DOMAIN active_pot_ids
    ELSE IF pc = "gather" THEN 1..chunk_i
    ELSE {}

\* A detail record with both fields, of a pot that is active.
KnownActive(r) ==
    r.is_dict /\ r.fields = {"expires_at", "is_active"} /\ r.is_active

AllKnownActive ==
    /\ DOMAIN responses = DOMAIN active_pot_ids
    /\ \A p \in DOMAIN responses : KnownActive(responses[p])

\* C1 as the spec states it: for active pots with known expiresAt, the ids
\* selected are exactly those with expiresAt <= now.
C1_SelectsAllUpToNow ==
    (pc = "scanned" /\ AllKnownActive) =>
        Range(expired_pot_ids) =
            {active_pot_ids[p] : p \in {q \in DOMAIN responses :
                                    responses[q].expires_at <= current_time}}

\* C1, amended: for active pots with known expiresAt, the ids selected are
\* exactly those with 0 < expiresAt <= now, each once and in list order.
C1_SelectsDueWithDeadline ==
    (pc = "scanned" /\ AllKnownActive) =>
        /\ Range(expired_pot_ids) =
               {active_pot_ids[p] : p \in {q \in DOMAIN responses :
                                       /\ responses[q].expires_at > 0
                                       /\ responses[q].expires_at <= current_time}}
        /\ \A k, l \in DOMAIN expired_pot_ids :
               k # l => expired_pot_ids[k] # expired_pot_ids[l]

\* C1 witness: a scan of several chunks over known active pots ended with a
\* pot past its deadline selected and a pot before its deadline left out.
C1_Witness ==
    /\ pc = "scanned" /\ AllKnownActive
    /\ Len(active_pot_ids) > batch_size
    /\ \E p, q \in DOMAIN responses :
        /\ responses[p].expires_at > 0
        /\ responses[p].expires_at < current_time
        /\ active_pot_ids[p] \in Range(expired_pot_ids)
        /\ responses[q].expires_at > current_time
        /\ active_pot_ids[q] \notin Range(expired_pot_ids)

\* The condition of the spec on the answer of get_pot.
Qualifies(r, now) ==
    /\ r.is_dict
    /\ "is_active" \in r.fields /\ r.is_active
    /\ "expires_at" \in r.fields /\ r.expires_at > 0 /\ now >= r.expires_at

\* C8: a pot the filter has gone through is in the expired list if and only
\* if its detail record has isActive true, expiresAt > 0 and now >= expiresAt.
C8_QualifiesIff ==
    \A p \in Filtered :
        active_pot_ids[p] \in Range(expired_pot_ids)
            <=> Qualifies(responses[p], current_time)

\* C8 witness: the filter has passed over an active pot with expiresAt = 0
\* and an inactive pot past its deadline, and has selected a third pot.
C8_Witness ==
    \E p, q, s \in Filtered :
        /\ KnownActive(responses[p]) /\ responses[p].expires_at = 0
        /\ active_pot_ids[p] \notin Range(expired_pot_ids)
        /\ responses[q].is_dict /\ responses[q].fields = {"expires_at", "is_active"}
        /\ ~responses[q].is_active
        /\ responses[q].expires_at > 0 /\ responses[q].expires_at < current_time
        /\ active_pot_ids[q] \notin Range(expired_pot_ids)
        /\ active_pot_ids[s] \in Range(expired_pot_ids)

\* C4: when a read call has failed, the run has ended with the error and no
\* transaction has been submitted.
C4_ReadFailureAborts ==
    read_error # "none" =>
        /\ pc = "raised"
        /\ txlog = <<>>
        /\ successful_txs = <<>>

\* C4 witness: get_pot failed in a later chunk, after an earlier chunk had
\* already found an expired pot.
C4_Witness ==
    /\ read_error = "get_pot"
    /\ pc = "raised"
    /\ chunk_i > 0
    /\ expired_pot_ids # <<>>

\* The chunk (0-based) of a position of the active list.
ChunkOf(p) == (p - 1) \div batch_size

\* The positions get_pot has been called for.
Issued == {p \in DOMAIN active_pot_ids : \E k \in DOMAIN viewlog : viewlog[k] = active_pot_ids[p]}

\* C5: at most batch_size queries are outstanding; a query of a later chunk
\* is issued only when every query of the chunks before it has been answered;
\* no id is queried twice and a complete scan has queried every id.
C5_BoundedScan ==
    /\ Cardinality(outstanding) <= batch_size
    /\ outstanding \subseteq Issued
    /\ \A p, q \in Issued :
           ChunkOf(p) < ChunkOf(q) =>
               /\ p \notin outstanding
               /\ pc = "gather" => p \in DOMAIN responses
    /\ \A k, l \in DOMAIN viewlog : k # l => viewlog[k] # viewlog[l]
    /\ (ScanComplete \/ (pc = "gather" /\ outstanding = {} /\
                         chunk_i + batch_size >= Len(active_pot_ids)))
           => viewlog = active_pot_ids

\* C5 witness: the second chunk is in flight with a full pool, the first
\* chunk answered.
C5_Witness ==
    /\ pc = "gather"
    /\ chunk_i = batch_size
    /\ Cardinality(outstanding) = batch_size
    /\ \A p \in 1..batch_size : p \in DOMAIN responses

\* The batch submissions, in call order.
IsBatch(t) == t.fn = "expire_multiple_pots"
IsSingle(t) == t.fn = "expire_pot"
BatchTxs == SelectSeq(txlog, IsBatch)
SingleTxs == SelectSeq(txlog, IsSingle)

\* ceil(n / 3)
Groups(n) == (n + GroupSize - 1) \div GroupSize

\* C6: the k-th batch submission carries the k-th three ids of the expired
\* list in list order, with 0 in the places past the end of the list, which
\* only the last group has; when no submission has failed there is no
\* expire_pot, and a finished sweep has made ceil(n/3) batch submissions.
C6_BatchPartition ==
    LET n == Len(expired_pot_ids)
    IN  /\ Len(BatchTxs) <= Groups(n)
        /\ \A k \in DOMAIN BatchTxs :
              /\ Len(BatchTxs[k].args) = GroupSize
              /\ \A j \in 1..GroupSize :
                    BatchTxs[k].args[j] =
                        IF GroupSize * (k - 1) + j <= n
                        THEN expired_pot_ids[GroupSize * (k - 1) + j]
                        ELSE 0
              /\ k < Groups(n) => GroupSize * k <= n
        /\ (\A t \in DOMAIN txlog : txlog[t].status # "failed") =>
              /\ SingleTxs = <<>>
              /\ pc = "reported" => Len(BatchTxs) = Groups(n)

\* C6 witness: a sweep of two groups, the second padded, finished without a
\* failure.
C6_Witness ==
    /\ pc = "reported"
    /\ Len(expired_pot_ids) = GroupSize + 1
    /\ \A t \in DOMAIN txlog : txlog[t].status = "committed"
    /\ Len(BatchTxs) = 2
    /\ BatchTxs[2].args[2] = 0 /\ BatchTxs[2].args[3] = 0

\* The members of a group that are not 0, in order.
NonZero(b) == SelectSeq(b, LAMBDA x : x # 0)

\* C2: a finished sweep has followed every failed batch submission by one
\* expire_pot for each member of the group that is not 0, in order, and a
\* member is in successful_txs, with the hash of its own transaction, exactly
\* when that transaction was committed.
C2_Fallback ==
    pc = "reported" =>
        \A t \in DOMAIN txlog :
            (IsBatch(txlog[t]) /\ txlog[t].status = "failed") =>
                LET nz == NonZero(txlog[t].args)
                IN  \A k \in DOMAIN nz :
                        /\ t + k <= Len(txlog)
                        /\ IsSingle(txlog[t + k])
                        /\ txlog[t + k].args = <<nz[k]>>
                        /\ (txlog[t + k].status = "committed"
                               <=> <<nz[k], t + k>> \in Range(successful_txs))
                        /\ (txlog[t + k].status # "committed"
                               => \A e \in Range(successful_txs) : e[1] # nz[k])

\* C2 witness: in a failed full group one expire_pot failed and a later one
\* of the same group was committed and is reported.
C2_Witness ==
    /\ pc = "reported"
    /\ \E t \in DOMAIN txlog :
        /\ IsBatch(txlog[t]) /\ txlog[t].status = "failed"
        /\ Len(NonZero(txlog[t].args)) = GroupSize
        /\ txlog[t + 1].status = "failed"
        /\ txlog[t + 2].status = "committed"
        /\ <<txlog[t].args[2], t + 2>> \in Range(successful_txs)

\* C3: once a transaction has been submitted the run does not end with an
\* exception, and a finished sweep has made one batch submission for every
\* group of the expired list, whatever failed before.
C3_FailureDoesNotStop ==
    /\ txlog # <<>> => pc \in {"batch_wait", "single_wait", "reported"}
    /\ pc = "reported" =>
          /\ Len(BatchTxs) = Groups(Len(expired_pot_ids))
          /\ \A k \in DOMAIN BatchTxs :
                BatchTxs[k].args = MakeBatch(expired_pot_ids, GroupSize * (k - 1))
          /\ \A t \in DOMAIN txlog : txlog[t].status # "pending"

\* C3 witness: the first batch failed, an expire_pot of it failed, and the
\* second group was still submitted as a batch; the sweep has returned.
C3_Witness ==
    /\ pc = "reported"
    /\ Len(BatchTxs) = 2
    /\ txlog[1].status = "failed"
    /\ \E t \in DOMAIN txlog : IsSingle(txlog[t]) /\ txlog[t].status = "failed"

\* The ids a transaction carries.
Carries(t, id) == \E j \in DOMAIN t.args : t.args[j] = id

\* C7: no transaction submitted after the one that made an id succeed
\* carries that id, and an expire_pot for an id comes after a failed batch
\* submission that carried the id, with no other batch in between.
C7_NoResubmission ==
    /\ \A e \in Range(successful_txs) :
          \A t \in DOMAIN txlog : t > e[2] => ~Carries(txlog[t], e[1])
    /\ \A t \in DOMAIN txlog :
          IsSingle(txlog[t]) =>
              \E b \in 1..(t - 1) :
                  /\ IsBatch(txlog[b]) /\ txlog[b].status = "failed"
                  /\ Carries(txlog[b], txlog[t].args[1])
                  /\ \A m \in (b + 1)..(t - 1) : IsSingle(txlog[m])

\* C7 witness: a pot succeeded in a batch and transactions were submitted
\* after it, an expire_pot among them.
C7_Witness ==
    /\ successful_txs # <<>>
    /\ successful_txs[1][2] = 1
    /\ IsBatch(txlog[1])
    /\ \E t \in DOMAIN txlog : t > 1 /\ IsSingle(txlog[t])

\* C9: every pot id in successful_txs is in the expired list, and no pot id
\* is in successful_txs twice.
C9_SucceededSubset ==
    /\ \A k \in DOMAIN successful_txs :
          successful_txs[k][1] \in Range(expired_pot_ids)
    /\ \A k, l \in DOMAIN successful_txs :
          k # l => successful_txs[k][1] # successful_txs[l][1]

\* C9 witness: a finished sweep reports pots from a committed batch and from
\* a committed expire_pot, and not every expired pot.
C9_Witness ==
    /\ pc = "reported"
    /\ Len(successful_txs) >= 2
    /\ Len(successful_txs) < Len(expired_pot_ids)
    /\ \E k, l \in DOMAIN successful_txs :
          /\ IsBatch(txlog[successful_txs[k][2]])
          /\ IsSingle(txlog[successful_txs[l][2]])

\* The ways a kind is written into event_type.
CreatedTags == {ToHex(Created, HexLower), ToHex(Created, HexUpper)}
AttemptedTags == {ToHex(Attempted, HexLower), ToHex(Attempted, HexUpper)}
KindTags(kind) == IF kind = Created THEN CreatedTags ELSE AttemptedTags

\* An event of the contract's PotEvent type whose kind is the one wanted.
Matches(event, kind) ==
    event.type = PotEventType /\ event.event_type \in KindTags(kind)

\* The place of the first event that matches, 0 when none does.
FirstMatch(evs, kind) ==
    LET hits == {k \in DOMAIN evs : Matches(evs[k], kind)}
    IN  IF hits = {} THEN 0 ELSE CHOOSE k \in hits : \A l \in hits : k <= l

\* The events that match, in order: the list without the events of another
\* source or another kind.
OnlyMatching(evs, kind) == SelectSeq(evs, LAMBDA e : Matches(e, kind))

\* What C10 says of one extract function, its result and its kind.
FirstMatchReturned(evs, result, kind) ==
    LET m == FirstMatch(evs, kind)
    IN  /\ m = 0 <=> result = <<>>
        /\ (m # 0 /\ evs[m].id # <<>>) => result = evs[m].id
        /\ result = ExtractFrom(OnlyMatching(evs, kind), 1, kind)

\* C10: each extract function returns the identifier of the first event of
\* the contract's PotEvent type whose kind is the wanted one (created for pot
\* ids, attempted for attempt ids), returns None exactly when no event
\* matches, and returns the same as for the list without the events of
\* another source or kind.
C10_FirstMatchingEvent ==
    /\ "pot_id" \in extracted => FirstMatchReturned(events, pot_id, Created)
    /\ "attempt_id" \in extracted => FirstMatchReturned(events, attempt_id, Attempted)

\* C10 witness: a created event with an id was found behind an event of
\* another source that names the same kind and an event of another kind, and
\* before a second created event with another id; no attempted event was
\* found.
C10_Witness ==
    /\ extracted = {"pot_id", "attempt_id"}
    /\ Len(events) = 3
    /\ events[1].type = ForeignEventType /\ events[1].event_type = ToHex(Created, HexLower)
    /\ Matches(events[2], Created) /\ Matches(events[3], Created)
    /\ events[2].id = <<0>> /\ events[3].id = <<1>>
    /\ pot_id = <<0>>
    /\ attempt_id = <<>>

\* What C11 says of one extract function: an event that matches but carries
\* no id gives None, and 0 is returned only for an event that carries id 0.
NoDefaultId(evs, result, kind) ==
    LET m == FirstMatch(evs, kind)
    IN  /\ (m # 0 /\ evs[m].id = <<>>) => result = <<>>
        /\ result = <<0>> => (m # 0 /\ evs[m].id = <<0>>)

\* C11: the client never defaults an identifier to 0: a matching created or
\* attempted event without an identifier yields None, and the identifier 0 is
\* returned only when the matching event carries id 0.
C11_NeverDefaultsToZero ==
    /\ "pot_id" \in extracted => NoDefaultId(events, pot_id, Created)
    /\ "attempt_id" \in extracted => NoDefaultId(events, attempt_id, Attempted)

\* The event_type fields that do not decode: an odd number of digits, a
\* character that is no hex digit, bytes that are no UTF-8.
UndecodableTags ==
    {<<"0", "x", "6", "3", "7">>, <<"0", "x", "c", "r">>, <<"0", "x", "f", "f">>}

Undecodable(event) ==
    event.type = PotEventType /\ event.event_type \in UndecodableTags

\* What C12 says of one extract function: with events in the list whose tag
\* does not decode, the result is that of the list without them, and it is
\* the id of the first well-formed matching event, wherever that event lies.
FailsClosed(evs, result, kind) ==
    LET m == FirstMatch(evs, kind)
        clean == SelectSeq(evs, LAMBDA e : ~Undecodable(e))
    IN  (\E k \in DOMAIN evs : Undecodable(evs[k])) =>
            /\ result = ExtractFrom(clean, 1, kind)
            /\ m = 0 => result = <<>>
            /\ m # 0 => result = <<GetId(evs[m])>>

\* C12: an event whose kind tag cannot be decoded is never returned as a
\* match and does not end the scan: a well-formed matching event later in the
\* list is still found and its identifier returned.
C12_DecodeFailsClosed ==
    /\ "pot_id" \in extracted => FailsClosed(events, pot_id, Created)
    /\ "attempt_id" \in extracted => FailsClosed(events, attempt_id, Attempted)

\* C12 witness: behind two events whose tags do not decode (an odd number of
\* digits, bytes that are no UTF-8) the created event was found and its id,
\* which is not theirs, returned.
C12_Witness ==
    /\ "pot_id" \in extracted
    /\ Len(events) = 3
    /\ events[1].type = PotEventType /\ events[1].event_type = <<"0", "x", "6", "3", "7">>
    /\ events[2].type = PotEventType /\ events[2].event_type = <<"0", "x", "f", "f">>
    /\ Matches(events[3], Created)
    /\ events[3].id = <<0>> /\ events[1].id # <<0>> /\ events[2].id # <<0>>
    /\ pot_id = <<0>>

\* The events in `events` are those of transaction n of the run: ex names the
\* extract calls made so far, and no later transaction has been committed.
Holds(n, ex) ==
    /\ extracted = ex
    /\ \A k \in DOMAIN txlog : k > n => txlog[k].status # "committed"

HoldsCreateEvents == Holds(1, {"pot_id"})
HoldsAttemptEvents == Holds(2, {"pot_id", "attempt_id"})
HoldsAttempt2Events == Holds(4, {"pot_id", "attempt_id", "attempt2_id"})

AllCommitted == \A k \in DOMAIN txlog : txlog[k].status = "committed"

\* main has stopped with a RuntimeError after n committed transactions and
\* no other.
StoppedAfter(n) ==
    /\ pc = "raised"
    /\ error # <<>> /\ error[1].type = "RuntimeError"
    /\ Len(txlog) = n
    /\ AllCommitted

\* C13: when the events of the committed create transaction hold no created
\* event, or those of an attempt transaction no attempted event, the driver
\* fails at that step and no further transaction (attempt, resolution) is
\* submitted in the run.
C13_CorrelationFailureStops ==
    /\ (HoldsCreateEvents /\ FirstMatch(events, Created) = 0) => StoppedAfter(1)
    /\ (HoldsAttemptEvents /\ FirstMatch(events, Attempted) = 0) => StoppedAfter(2)
    /\ (HoldsAttempt2Events /\ FirstMatch(events, Attempted) = 0) => StoppedAfter(4)

\* C13 witness: the first attempt was committed, its events (a created event
\* among them) held no attempted event, and the run ended with create and
\* attempt as its only transactions.
C13_Witness ==
    /\ HoldsAttemptEvents
    /\ FirstMatch(events, Attempted) = 0
    /\ FirstMatch(events, Created) # 0
    /\ StoppedAfter(2)
    /\ txlog[2].fn = "attempt_pot_entry"

\* The request of a submission.
SameRequest(t, u) == t.fn = u.fn /\ t.args = u.args

IsDriverTx(t) == "account" \in DOMAIN t

\* The operations of the driver, in the order of main.
DriverOps == <<"create_pot_entry", "attempt_pot_entry", "attempt_completed",
               "attempt_pot_entry", "attempt_completed">>

\* C14: one call of submit_transaction is one submission, and a request that
\* failed is not submitted again: in a run of the sweeper no later submission
\* repeats a failed one; in a run of the driver a failed submission is the
\* last one, and the k-th submission is that of the k-th operation.
C14_NoAutomaticRetry ==
    /\ \A j, k \in DOMAIN txlog :
        (j < k /\ txlog[j].status = "failed") => ~SameRequest(txlog[j], txlog[k])
    /\ \A k \in DOMAIN txlog :
        IsDriverTx(txlog[k]) =>
            /\ k <= Len(DriverOps) /\ txlog[k].fn = DriverOps[k]
            /\ txlog[k].status = "failed" => (k = Len(txlog) /\ pc = "raised")

\* C14 witness: the second attempt of the driver failed, and the run ended
\* with that submission as its last.
C14_Witness ==
    /\ pc = "raised"
    /\ Len(txlog) = 4
    /\ IsDriverTx(txlog[4])
    /\ txlog[4].status = "failed"
    /\ txlog[4].fn = "attempt_pot_entry"

\* The identity that signs a submission: the sweeper has one account.
AccountOf(t) == IF IsDriverTx(t) THEN t.account ELSE "account"

\* C15: of one signing identity at most one transaction is in flight at any
\* time: when a transaction is submitted, every earlier one of the same
\* identity has been committed or has failed.
C15_SequentialPerIdentity ==
    \A j, k \in DOMAIN txlog :
        (j < k /\ AccountOf(txlog[j]) = AccountOf(txlog[k])) =>
            txlog[j].status \in {"committed", "failed"}

\* C15 witness: the second transaction of main_acct is in flight, after the
\* first one of main_acct and one of hunter_acct were committed.
C15_Witness ==
    /\ pc = "fail_wait"
    /\ Len(txlog) = 3
    /\ txlog[3].status = "pending" /\ txlog[3].account = "main_acct"
    /\ txlog[1].status = "committed" /\ txlog[1].account = "main_acct"
    /\ txlog[2].status = "committed" /\ txlog[2].account = "hunter_acct"

\* C16: when the driver has a pot id and a later step fails, the error that
\* reaches the caller carries that pot id.
C16_ErrorCarriesPotId ==
    (pc = "raised" /\ error # <<>> /\ pot_id # <<>>) =>
        /\ "pot_id" \in DOMAIN error[1]
        /\ error[1].pot_id = pot_id[1]

\* The id the first event of the kind carries, <<>> when there is no such
\* event or it carries none.
Observed(evs, kind) ==
    LET m == FirstMatch(evs, kind)
    IN  IF m = 0 THEN <<>> ELSE evs[m].id

\* C17: the driver submits create, attempt, resolve(false), attempt,
\* resolve(true) in that order, each after the one before was committed; both
\* attempts carry the pot id of the created event of the create transaction,
\* each resolution the attempt id of the attempted event of the attempt before
\* it, never an id that no event carried.
C17_IdentifierThreading ==
    /\ \A k \in DOMAIN txlog :
        /\ k <= Len(DriverOps) /\ txlog[k].fn = DriverOps[k]
        /\ k < Len(txlog) => txlog[k].status = "committed"
    /\ Len(txlog) >= 2 =>
        /\ txlog[2].args = <<pot_id[1]>>
        /\ HoldsCreateEvents => Observed(events, Created) = <<txlog[2].args[1]>>
    /\ Len(txlog) >= 3 =>
        /\ txlog[3].args = <<attempt_id[1], FALSE>>
        /\ HoldsAttemptEvents => Observed(events, Attempted) = <<txlog[3].args[1]>>
    /\ Len(txlog) >= 4 => txlog[4].args = txlog[2].args
    /\ Len(txlog) >= 5 =>
        /\ txlog[5].args = <<attempt2_id[1], TRUE>>
        /\ HoldsAttempt2Events => Observed(events, Attempted) = <<txlog[5].args[1]>>

\* The committed transactions of the sweep that carried the pot id, and the
\* places of successful_txs that report it.
CommittedWith(id) ==
    {k \in DOMAIN txlog : txlog[k].status = "committed" /\ Carries(txlog[k], id)}

ReportsOf(id) == {j \in DOMAIN successful_txs : successful_txs[j][1] = id}

\* C18: at the end of the sweep every attempted pot id, the id 0 of a real
\* pot included, is reported as succeeded exactly when a committed batch or
\* individual transaction carried it, with the hash of that transaction; the
\* ids counted as failed are the other attempted ids.
C18_SweepAccounting ==
    pc = "reported" =>
        /\ \A id \in Range(expired_pot_ids) :
            /\ ReportsOf(id) # {} <=> CommittedWith(id) # {}
            /\ \A j \in ReportsOf(id) : successful_txs[j][2] \in CommittedWith(id)
        /\ Len(expired_pot_ids) - Len(successful_txs) =
               Cardinality({id \in Range(expired_pot_ids) : CommittedWith(id) = {}})

\* An answer of get_pot without a usable record: not a record, or a record
\* without expires_at or without is_active.
Incomplete(r) ==
    \/ ~r.is_dict
    \/ "expires_at" \notin r.fields
    \/ "is_active" \notin r.fields

\* What C19 says of the step that follows the scan: every pot was answered
\* for, and a pot whose answer was incomplete is not among the expired ones
\* and in no transaction submitted.
IncompleteLeftAlone ==
    pc = "scanned" =>
        /\ DOMAIN responses = DOMAIN active_pot_ids
        /\ \A p \in DOMAIN responses :
            Incomplete(responses[p]) =>
                /\ active_pot_ids[p] \notin Range(expired_pot_ids)
                /\ \A k \in DOMAIN txlog' : ~Carries(txlog'[k], active_pot_ids[p])

\* C19: when get_pot answers without a usable record, the pot is treated as
\* not expired, the scan goes on with the remaining pots, and no expiration
\* transaction that contains the pot id is submitted.
C19_IncompleteNeverMutated == [][IncompleteLeftAlone]_vars

\* The run of the sweeper is over: it returned early, reported, or raised.
Finished == pc \in {"returned", "reported", "raised"}

\* What C20 says of the submissions of a sweep with n expired ids.
SweepBounded ==
    LET n == Len(expired_pot_ids)
    IN  /\ Len(BatchTxs) <= Groups(n)
        /\ Len(SingleTxs) <= n
        /\ (ScanComplete /\ n = 0) => (txlog = <<>> /\ pc \in {"scanned", "returned"})
        /\ pc = "returned" => txlog = <<>>
        /\ pc = "reported" =>
            /\ Len(successful_txs) <= n
            /\ Cardinality({successful_txs[j][1] : j \in DOMAIN successful_txs})
                   = Len(successful_txs)
            /\ \A k \in DOMAIN txlog : txlog[k].status \in {"committed", "failed"}

\* C20: when every remote call returns or fails in the end, the sweep
\* finishes, after at most ceil(n/3) batch submissions and at most n
\* individual ones for n expired ids, every expired id being counted once as
\* succeeded or as failed; with an empty active set or no expired pot it
\* finishes without a transaction.
C20_SweepTerminates == <>Finished /\ []SweepBounded

\* C20 witness: a sweep of four expired pots has finished after two batch
\* submissions, the first of which failed, and three individual ones.
C20_Witness ==
    /\ pc = "reported"
    /\ Len(expired_pot_ids) = 4
    /\ Len(BatchTxs) = 2
    /\ Len(SingleTxs) = 3
    /\ txlog[1].status = "failed"

====
